---- MODULE Spec2Model ----
(***************************************************************************)
(* A model of craft_planner.py: the State ordered dictionary, the recipe   *)
(* checker and effector closures, the goal checker, the transition         *)
(* generator and the time-bounded best-first search with its heap-based    *)
(* frontier, distance and predecessor dictionaries and path walk.          *)
(***************************************************************************)
EXTENDS Integers, Sequences, FiniteSets, TLC

VARIABLES
    est,          \* one call of make_heuristic's get_hue: goal, state, value returned
    bench,        \* one recipe under construction and test: rule, state, closures, results
    all_recipes,  \* search argument: the list of Recipe tuples
    goal,         \* the goal dictionary captured by is_goal and get_hue
    hue,          \* which heuristic function is passed as get_hue
    state,        \* search argument: the initial State
    limit,        \* search argument: the time budget, in ticks of the clock
    elapsed,      \* time() - start_time as last read by the loop condition
    prio_q,       \* the heap list
    distance,     \* the distance dictionary
    prev,         \* the predecessor dictionary
    node,         \* the local variable node
    path,         \* the local variable path
    turns,        \* how many turns the walk's while loop has taken, modulo 2
    pc,           \* where search is: Off, Running, Walk, GoalFound, TimeExpired
    result        \* the value search returned

vars == <<est, bench, all_recipes, goal, hue, state, limit, elapsed, prio_q,
          distance, prev, node, path, turns, pc, result>>

searchVars == <<all_recipes, goal, hue, state, limit, elapsed, prio_q,
                distance, prev, node, path, turns, pc, result>>

-----------------------------------------------------------------------------
(* Bounds of the model *)

\* largest quantity of an item in an initial inventory
MaxQty == 1
\* largest time budget, in clock ticks
MaxLimit == 4
\* most recipes in a recipe list
MaxRecipes == 2

-----------------------------------------------------------------------------
(* Strings: Python orders them by code point *)

Names == <<"Start", "chop", "coal", "gather", "glue", "harvest", "mill",
           "plank", "polish", "punch", "saw", "whittle", "wood">>

NameRank(s) == CHOOSE i \in 1..Len(Names) : Names[i] = s

StrLt(a, b) == NameRank(a) < NameRank(b)

-----------------------------------------------------------------------------
(* Numbers: Python ints together with float('inf') and the nan that        *)
(* inf - inf produces                                                      *)

Inf == 9999
NaN == -9999

IsFinite(x) == x # Inf /\ x # NaN

NumAdd(x, y) ==
    IF x = NaN \/ y = NaN THEN NaN
    ELSE IF x = Inf \/ y = Inf THEN Inf
    ELSE x + y

NumSub(x, y) ==
    IF x = NaN \/ y = NaN THEN NaN
    ELSE IF x = Inf /\ y = Inf THEN NaN
    ELSE IF x = Inf THEN Inf
    ELSE IF y = Inf THEN NaN   \* -inf never arises: the heuristic is subtracted from its own sum
    ELSE x - y

\* x < y on numbers: every comparison with nan is False
NumLt(x, y) == x # NaN /\ y # NaN /\ x < y

\* x == y on numbers: nan equals nothing, itself included
NumEq(x, y) == x # NaN /\ y # NaN /\ x = y

-----------------------------------------------------------------------------
(* The item catalog, Crafting['Items'] *)

Items == <<"wood", "plank">>

CatalogSet == {Items[i] : i \in 1..Len(Items)}

-----------------------------------------------------------------------------
(* State: an OrderedDict, a sequence of <<item, quantity>> pairs *)

Keys(d) == {d[k][1] : k \in 1..Len(d)}

KeySeq(d) == [k \in 1..Len(d) |-> d[k][1]]

Get(d, key) == d[CHOOSE k \in 1..Len(d) : d[k][1] = key][2]

\* d[key] = v: an existing key keeps its position, a new key goes last
Put(d, key, v) ==
    IF key \in Keys(d)
    THEN [k \in 1..Len(d) |-> IF d[k][1] = key THEN <<key, v>> ELSE d[k]]
    ELSE Append(d, <<key, v>>)

RECURSIVE Update(_, _)
Update(d, other) ==
    IF other = <<>> THEN d
    ELSE Update(Put(d, other[1][1], other[1][2]), Tail(other))

copy(s) == Update(<<>>, s)

\* tuple(self.items()) < tuple(other.items()): lexicographic on the pairs
RECURSIVE KeyLt(_, _)
KeyLt(a, b) ==
    IF a = <<>> THEN b # <<>>
    ELSE IF b = <<>> THEN FALSE
    ELSE IF a[1] = b[1] THEN KeyLt(Tail(a), Tail(b))
    ELSE IF a[1][1] # b[1][1] THEN StrLt(a[1][1], b[1][1])
    ELSE a[1][2] < b[1][2]

StateLt(a, b) == KeyLt(a, b)

-----------------------------------------------------------------------------
(* Rules: the values of Crafting['Recipes'].  A rule is a record that may  *)
(* lack 'Requires', 'Consumes' or 'Produces'; each present one maps item   *)
(* names to a flag or an amount.                                           *)

\* the entries of rule[field] whose item is in the catalog, as the loops over
\* Crafting['Items'] collect them
Collect(rule, field) ==
    IF field \in DOMAIN rule
    THEN [i \in {n \in CatalogSet : n \in DOMAIN rule[field]} |-> rule[field][i]]
    ELSE [i \in {} |-> 0]

make_checker(rule) ==
    [consume |-> Collect(rule, "Consumes"), reqs |-> Collect(rule, "Requires")]

make_effector(rule) ==
    [consume |-> Collect(rule, "Consumes"), produce |-> Collect(rule, "Produces")]

\* a checker that looks at what a rule requires and not at what it consumes
check_requires_only(c, s) ==
    \A k \in 1..Len(s) : s[k][1] \in DOMAIN c.reqs => ~(s[k][2] < 1)

\* a checker that refuses a state holding exactly the amount consumed
check_strict(c, s) ==
    \A k \in 1..Len(s) :
        /\ (s[k][1] \in DOMAIN c.reqs => ~(s[k][2] < 1))
        /\ (s[k][1] \in DOMAIN c.consume => ~(s[k][2] <= c.consume[s[k][1]]))

check(c, s) ==
    \A k \in 1..Len(s) :
        LET i_name == s[k][1]
            i_amount == s[k][2]
        IN /\ (i_name \in DOMAIN c.reqs => ~(i_amount < 1))
           /\ (i_name \in DOMAIN c.consume => ~(i_amount < c.consume[i_name]))

\* an effector that works on the argument itself instead of on a copy
effect_in_place(e, s) ==
    LET consumed == [k \in 1..Len(s) |->
                       IF s[k][1] \in DOMAIN e.consume
                       THEN <<s[k][1], s[k][2] - e.consume[s[k][1]]>> ELSE s[k]]
        produced == [k \in 1..Len(consumed) |->
                       IF consumed[k][1] \in DOMAIN e.produce
                       THEN <<consumed[k][1], consumed[k][2] + e.produce[consumed[k][1]]>>
                       ELSE consumed[k]]
    IN [arg |-> produced, ret |-> produced]

\* effect(state): the argument object after the call, and the returned State
effect(e, s) ==
    LET temp_state == copy(s)
        inventory == temp_state
        consumed == [k \in 1..Len(inventory) |->
                       IF inventory[k][1] \in DOMAIN e.consume
                       THEN <<inventory[k][1], inventory[k][2] - e.consume[inventory[k][1]]>>
                       ELSE inventory[k]]
        produced == [k \in 1..Len(consumed) |->
                       IF consumed[k][1] \in DOMAIN e.produce
                       THEN <<consumed[k][1], consumed[k][2] + e.produce[consumed[k][1]]>>
                       ELSE consumed[k]]
    IN [arg |-> s, ret |-> Update(temp_state, produced)]

\* Recipe(name, checker, effector, rule['Time'])
MakeRecipe(name, rule) ==
    [name |-> name, check |-> make_checker(rule), effect |-> make_effector(rule),
     cost |-> rule.Time]

is_goal(g, s) ==
    \A k \in 1..Len(s) : s[k][1] \in DOMAIN g => ~(s[k][2] < g[s[k][1]])

\* graph(state, all_recipes): the (name, state, cost) triples, in recipe order
graph(s, recipes) ==
    LET idx == {i \in 1..Len(recipes) : check(recipes[i].check, s)}
        F[i \in 0..Len(recipes)] ==
            IF i = 0 THEN <<>>
            ELSE IF i \in idx
                 THEN Append(F[i - 1], <<recipes[i].name,
                                         effect(recipes[i].effect, s).ret,
                                         recipes[i].cost>>)
                 ELSE F[i - 1]
    IN F[Len(recipes)]

-----------------------------------------------------------------------------
(* One recipe built and tried on one state: the loop body of __main__ that *)
(* builds a Recipe, then graph's check and effect on a state               *)

\* item names a dataset may use: the catalog's and one that is not in it
ItemNames == CatalogSet \cup {"coal"}

NoMap == [i \in {} |-> 0]

Maps(vals) == {NoMap} \cup {[i \in {n} |-> v] : n \in ItemNames, v \in vals}
                \cup {[i \in CatalogSet |-> v] : v \in vals}

\* rules with and without each optional part
BenchRules ==
    {[Requires |-> r, Consumes |-> c, Produces |-> p, Time |-> 1] :
        r \in Maps({TRUE}), c \in Maps({1, 2}), p \in Maps({1, 2})}
    \cup {[Consumes |-> c, Time |-> 1] : c \in Maps({1})}
    \cup {[Produces |-> p, Time |-> 0] : p \in Maps({2})}
    \cup {[Requires |-> r, Time |-> 2] : r \in Maps({TRUE})}

\* a State holding every catalog item, in catalog order or the reverse
BenchStates ==
    {<<<<Items[1], a>>, <<Items[2], b>>>> : a \in 0..(MaxQty + 1), b \in 0..(MaxQty + 1)}
    \cup {<<<<Items[2], b>>, <<Items[1], a>>>> : a \in 0..(MaxQty + 1), b \in 0..(MaxQty + 1)}

\* the item names a rule mentions
Mentioned(rule) ==
    UNION {DOMAIN rule[f] : f \in DOMAIN rule \cap {"Requires", "Consumes", "Produces"}}

Malformed(rule) == ~(Mentioned(rule) \subseteq CatalogSet)

\* given: the value of the state argument when the calls began
Idle == [pc |-> "idle", rule |-> [Time |-> 0], given |-> <<>>, state |-> <<>>,
         recipe |-> <<>>, ok |-> FALSE, out |-> <<>>]

\* search is not running while a recipe is on the bench
SearchOff ==
    /\ all_recipes = <<>>
    /\ goal = NoMap
    /\ hue = [kind |-> "zero", w |-> 0, cap |-> 0]
    /\ state = <<>>
    /\ limit = 0
    /\ elapsed = 0
    /\ prio_q = <<>>
    /\ distance = NoMap
    /\ prev = NoMap
    /\ node = <<>>
    /\ path = <<>>
    /\ turns = 0
    /\ pc = "Off"
    /\ result = <<>>

\* get_hue has not been called
Unasked == [pc |-> "idle", goal |-> NoMap, state |-> <<>>, value |-> 0]

\* nothing has been called yet
Init == est = Unasked /\ bench = Idle /\ SearchOff

\* a rule of the dataset and a state are taken up
Load ==
    /\ bench.pc = "idle"
    /\ pc = "Off"
    /\ \E rule \in BenchRules, s \in BenchStates :
          bench' = [Idle EXCEPT !.pc = "rule", !.rule = rule, !.given = s, !.state = s]
    /\ UNCHANGED <<est, searchVars>>

\* lines 285-288: checker, effector and the Recipe tuple; nothing is raised
Build ==
    /\ bench.pc = "rule"
    /\ bench' = [bench EXCEPT !.pc = "built", !.recipe = MakeRecipe("r", bench.rule)]
    /\ UNCHANGED <<est, searchVars>>

\* line 134: r.check(state)
Check ==
    /\ bench.pc = "built"
    /\ bench' = [bench EXCEPT !.pc = "checked", !.ok = check(bench.recipe.check, bench.state)]
    /\ UNCHANGED <<est, searchVars>>

\* line 135: r.effect(state), reached only when the check held
Apply ==
    /\ bench.pc = "checked"
    /\ bench.ok
    /\ LET r == effect(bench.recipe.effect, bench.state)
       IN bench' = [bench EXCEPT !.pc = "applied", !.state = r.arg, !.out = r.ret]
    /\ UNCHANGED <<est, searchVars>>

-----------------------------------------------------------------------------
(* Heuristics passed to search as get_hue.  Each is built like             *)
(* make_heuristic's get_hue: a weighted sum of the goal's shortfalls, and  *)
(* float('inf') for a state holding more than a cap of some item.          *)

Shortfall(w, g, s) ==
    LET F[k \in 0..Len(s)] ==
            IF k = 0 THEN 0
            ELSE IF s[k][1] \in DOMAIN g /\ s[k][2] < g[s[k][1]]
                 THEN F[k - 1] + w * (g[s[k][1]] - s[k][2])
                 ELSE F[k - 1]
    IN F[Len(s)]

get_hue(h, g, s) ==
    IF h.kind = "zero" THEN 0
    ELSE IF h.kind = "shortfall" THEN Shortfall(h.w, g, s)
    ELSE IF h.kind = "cap"
         THEN IF \E k \in 1..Len(s) : s[k][2] > h.cap THEN Inf ELSE Shortfall(h.w, g, s)
    ELSE \* "spike": an arbitrary bump on the states holding exactly cap planks
         IF Get(s, "plank") = h.cap THEN h.w ELSE 0

-----------------------------------------------------------------------------
(* Frontier entries are tuples (priority, state, name, cost), ordered as   *)
(* Python orders tuples, and kept in a heapq list                          *)

NodeLt(a, b) ==
    IF ~NumEq(a[1], b[1]) THEN NumLt(a[1], b[1])
    ELSE IF a[2] # b[2] THEN StateLt(a[2], b[2])
    ELSE IF a[3] # b[3] THEN StrLt(a[3], b[3])
    ELSE a[4] < b[4]

\* heapq._siftdown; positions are Python's, from 0
RECURSIVE siftdown(_, _, _, _)
siftdown(heap, startpos, pos, newitem) ==
    IF pos > startpos
    THEN LET parentpos == (pos - 1) \div 2
             parent == heap[parentpos + 1]
         IN IF NodeLt(newitem, parent)
            THEN siftdown([heap EXCEPT ![pos + 1] = parent], startpos, parentpos, newitem)
            ELSE [heap EXCEPT ![pos + 1] = newitem]
    ELSE [heap EXCEPT ![pos + 1] = newitem]

\* the loop of heapq._siftup: the smaller child moves up until a leaf is hit
RECURSIVE siftupLoop(_, _, _)
siftupLoop(heap, pos, childpos) ==
    IF childpos < Len(heap)
    THEN LET rightpos == childpos + 1
             c == IF rightpos < Len(heap) /\ ~NodeLt(heap[childpos + 1], heap[rightpos + 1])
                  THEN rightpos ELSE childpos
         IN siftupLoop([heap EXCEPT ![pos + 1] = heap[c + 1]], c, 2 * c + 1)
    ELSE <<heap, pos>>

siftup(heap, pos) ==
    LET r == siftupLoop(heap, pos, 2 * pos + 1)
    IN siftdown(r[1], pos, r[2], heap[pos + 1])

heappush(heap, item) == siftdown(Append(heap, item), 0, Len(heap), item)

\* heappop of a non-empty heap: the item returned and the heap left
heappop(heap) ==
    LET lastelt == heap[Len(heap)]
        rest == SubSeq(heap, 1, Len(heap) - 1)
    IN IF rest # <<>>
       THEN [item |-> rest[1], heap |-> siftup([rest EXCEPT ![1] = lastelt], 0)]
       ELSE [item |-> lastelt, heap |-> rest]

-----------------------------------------------------------------------------
(* The arguments search is called with *)

\* Crafting['Recipes'], in the order of the dataset
Pool == <<
    [name |-> "punch",   rule |-> [Produces |-> [wood |-> 1], Time |-> 2]],
    [name |-> "saw",     rule |-> [Consumes |-> [wood |-> 1], Produces |-> [plank |-> 2], Time |-> 1]],
    [name |-> "glue",    rule |-> [Consumes |-> [plank |-> 2], Produces |-> [wood |-> 1], Time |-> 0]],
    [name |-> "polish",  rule |-> [Requires |-> [plank |-> TRUE], Time |-> 1]],
    [name |-> "chop",    rule |-> [Produces |-> [plank |-> 2], Time |-> 5]],
    [name |-> "whittle", rule |-> [Produces |-> [plank |-> 1], Time |-> 1]] >>

\* the elements of seq at the positions in idx, in order
RECURSIVE Sub(_, _)
Sub(seq, idx) ==
    IF idx = {} THEN <<>>
    ELSE LET m == CHOOSE i \in idx : \A j \in idx : i <= j
         IN <<seq[m]>> \o Sub(seq, idx \ {m})

\* all_recipes as __main__ builds it from a dataset holding some of Pool's rules
RecipeLists ==
    {[k \in 1..Cardinality(idx) |->
         MakeRecipe(Sub(Pool, idx)[k].name, Sub(Pool, idx)[k].rule)] :
        idx \in {x \in SUBSET (1..Len(Pool)) : Cardinality(x) <= MaxRecipes}}

Goals == {[plank |-> 2], [wood |-> 1], [wood |-> 1, plank |-> 1], [plank |-> 3]}

Hues == {[kind |-> "zero", w |-> 0, cap |-> 0],
         [kind |-> "shortfall", w |-> 1, cap |-> 0],
         [kind |-> "shortfall", w |-> 3, cap |-> 0],
         [kind |-> "cap", w |-> 1, cap |-> 1],
         [kind |-> "spike", w |-> 4, cap |-> 1]}

\* lines 297-298: every catalog item, in catalog order
StartStates ==
    {[k \in 1..Len(Items) |-> <<Items[k], q[k]>>] : q \in [1..Len(Items) -> 0..MaxQty]}

-----------------------------------------------------------------------------
(* search *)

\* the entries path holds at most; a walk that is longer never ends, and
\* the model keeps the first MaxPath entries of its list
MaxPath == MaxLimit + 2

StateKey(s) == <<"state", s>>
NodeKey(n) == <<"node", n>>

Hue(s) == get_hue(hue, goal, s)

\* line 229
get_initial(h, g, s) == <<get_hue(h, g, copy(s)), copy(s), "Start", 0>>

initial(s) == get_initial(hue, goal, s)

\* Relax without line 254's second test: a state keeps its first distance
RelaxFirstSeen(acc, nd, n) ==
    LET distance_through_node == NumAdd(NumSub(nd[1], Hue(nd[2])), n[3])
    IN IF StateKey(n[2]) \notin DOMAIN acc.distance
       THEN LET new_node == <<NumAdd(Hue(n[2]), distance_through_node), n[2], n[1], n[3]>>
            IN [distance |-> (StateKey(n[2]) :> distance_through_node) @@ acc.distance,
                prev |-> (n[2] :> nd) @@ acc.prev,
                prio_q |-> heappush(acc.prio_q, new_node)]
       ELSE acc

\* lines 253-258, for one neighbour n of the popped node nd
Relax(acc, nd, n) ==
    LET distance_through_node == NumAdd(NumSub(nd[1], Hue(nd[2])), n[3])
    IN IF StateKey(n[2]) \notin DOMAIN acc.distance
          \/ NumLt(distance_through_node, acc.distance[StateKey(n[2])])
       THEN LET new_node == <<NumAdd(Hue(n[2]), distance_through_node), n[2], n[1], n[3]>>
            IN [distance |-> (StateKey(n[2]) :> distance_through_node) @@ acc.distance,
                prev |-> (n[2] :> nd) @@ acc.prev,
                prio_q |-> heappush(acc.prio_q, new_node)]
       ELSE acc

\* RelaxAll without line 254's test: every neighbour is recorded and pushed
RECURSIVE RelaxAlways(_, _, _)
RelaxAlways(acc, nd, neighbors) ==
    IF neighbors = <<>> THEN acc
    ELSE LET n == neighbors[1]
             distance_through_node == NumAdd(NumSub(nd[1], Hue(nd[2])), n[3])
             new_node == <<NumAdd(Hue(n[2]), distance_through_node), n[2], n[1], n[3]>>
         IN RelaxAlways([distance |-> (StateKey(n[2]) :> distance_through_node) @@ acc.distance,
                         prev |-> (n[2] :> nd) @@ acc.prev,
                         prio_q |-> heappush(acc.prio_q, new_node)],
                        nd, Tail(neighbors))

\* lines 252-258: the for loop over the neighbours
RECURSIVE RelaxAll(_, _, _)
RelaxAll(acc, nd, neighbors) ==
    IF neighbors = <<>> THEN acc
    ELSE RelaxAll(Relax(acc, nd, neighbors[1]), nd, Tail(neighbors))

\* the budgets of line 300's call: the shortest one, which the first reading
\* of the clock uses up, and the longest one, under which the loop can stop
\* at each of its turns
Limits == {1, MaxLimit}

\* lines 220-231: search is called, and sets up its heap and dictionaries
Call ==
    /\ pc = "Off"
    /\ all_recipes' \in RecipeLists
    /\ goal' \in Goals
    /\ hue' \in Hues
    /\ state' \in StartStates
    /\ limit' \in Limits
    /\ elapsed' = 0
    /\ prio_q' = <<get_initial(hue', goal', state')>>
    /\ distance' = (NodeKey(get_initial(hue', goal', state')) :> 0)
    /\ prev' = NoMap
    /\ node' = <<>>
    /\ path' = <<>>
    /\ turns' = 0
    /\ pc' = "Running"
    /\ result' = <<>>
    /\ UNCHANGED <<est, bench>>

\* line 234: what time() - start_time can be when the loop condition reads
\* the clock.  The clock has moved on since it was last read, by any amount;
\* a reading of limit stands for every reading at or past the deadline.
Reads == (elapsed + 1)..limit

\* lines 234, 261-262: the budget is used up
Expire ==
    /\ pc = "Running"
    /\ \E t \in Reads : ~(t < limit) /\ elapsed' = t
    /\ pc' = "TimeExpired"
    /\ result' = <<>>
    /\ UNCHANGED <<est, bench, all_recipes, goal, hue, state, limit, prio_q, distance,
                   prev, node, path, turns>>

\* Spin with a return of the empty list once the heap is found empty
SpinReturns ==
    /\ pc = "Running"
    /\ \E t \in Reads : t < limit /\ elapsed' = t
    /\ ~(Len(prio_q) > 0)
    /\ pc' = "TimeExpired"
    /\ result' = <<>>
    /\ UNCHANGED <<est, bench, all_recipes, goal, hue, state, limit, prio_q, distance,
                   prev, node, path, turns>>

\* lines 234-235: an iteration that finds the heap empty
Spin ==
    /\ pc = "Running"
    /\ \E t \in Reads : t < limit /\ elapsed' = t
    /\ ~(Len(prio_q) > 0)
    /\ UNCHANGED <<est, bench, all_recipes, goal, hue, state, limit, prio_q, distance,
                   prev, node, path, turns, pc, result>>

\* lines 234-240: an iteration that pops a goal node
PopGoal ==
    /\ pc = "Running"
    /\ \E t \in Reads : t < limit /\ elapsed' = t
    /\ Len(prio_q) > 0
    /\ LET p == heappop(prio_q)
       IN /\ is_goal(goal, p.item[2])
          /\ node' = p.item
          /\ prio_q' = p.heap
    /\ path' = <<>>
    /\ pc' = "Walk"
    /\ UNCHANGED <<est, bench, all_recipes, goal, hue, state, limit, distance, prev, turns,
                   result>>

\* Expand without line 238's test: a popped goal node is expanded as well
ExpandAny ==
    /\ pc = "Running"
    /\ \E t \in Reads : t < limit /\ elapsed' = t
    /\ Len(prio_q) > 0
    /\ LET p == heappop(prio_q)
           acc == RelaxAll([distance |-> distance, prev |-> prev, prio_q |-> p.heap],
                           p.item, graph(p.item[2], all_recipes))
       IN /\ node' = p.item
          /\ distance' = acc.distance
          /\ prev' = acc.prev
          /\ prio_q' = acc.prio_q
    /\ UNCHANGED <<est, bench, all_recipes, goal, hue, state, limit, path, turns, pc, result>>

\* lines 234-238, 247-258: an iteration that pops and expands a node
Expand ==
    /\ pc = "Running"
    /\ \E t \in Reads : t < limit /\ elapsed' = t
    /\ Len(prio_q) > 0
    /\ LET p == heappop(prio_q)
           acc == RelaxAll([distance |-> distance, prev |-> prev, prio_q |-> p.heap],
                           p.item, graph(p.item[2], all_recipes))
       IN /\ ~is_goal(goal, p.item[2])
          /\ node' = p.item
          /\ distance' = acc.distance
          /\ prev' = acc.prev
          /\ prio_q' = acc.prio_q
    /\ UNCHANGED <<est, bench, all_recipes, goal, hue, state, limit, path, turns, pc, result>>

\* Appended with the 'Start' node left out of the path
AppendedActions(p, nd) ==
    IF nd[3] = "Start" \/ ~(Len(p) < MaxPath) THEN p ELSE Append(p, <<nd[4], nd[3], nd[2]>>)

\* lines 240, 243: path.append([node[3], node[2], node[1]])
Appended(p, nd) == IF Len(p) < MaxPath THEN Append(p, <<nd[4], nd[3], nd[2]>>) ELSE p

Reverse(p) == [k \in 1..Len(p) |-> p[Len(p) + 1 - k]]

\* lines 241-243: one turn of the while loop
WalkStep ==
    /\ pc = "Walk"
    /\ node[2] \in DOMAIN prev
    /\ path' = Appended(path, node)
    /\ node' = prev[node[2]]
    /\ turns' = (turns + 1) % 2
    /\ UNCHANGED <<est, bench, all_recipes, goal, hue, state, limit, elapsed, prio_q,
                   distance, prev, pc, result>>

\* lines 241, 244-246: the loop ends, the path is reversed and returned
WalkEnd ==
    /\ pc = "Walk"
    /\ ~(node[2] \in DOMAIN prev)
    /\ path' = Reverse(Appended(path, node))
    /\ result' = path'
    /\ pc' = "GoalFound"
    /\ UNCHANGED <<est, bench, all_recipes, goal, hue, state, limit, elapsed, prio_q,
                   distance, prev, node, turns>>

-----------------------------------------------------------------------------
(* Specifications *)

Next == Call \/ Expire \/ Spin \/ PopGoal \/ Expand \/ WalkStep \/ WalkEnd

Spec == Init /\ [][Next]_vars

RecipeNext == Load \/ Build \/ Check \/ Apply

RecipeSpec == Init /\ [][RecipeNext]_vars

-----------------------------------------------------------------------------
(* Claims about recipes *)

Constructed == bench.pc \in {"built", "checked", "applied"}

\* C8: a rule that names an item outside the catalog is rejected when the
\* recipe is built: no recipe is ever constructed from such a rule.
C8_MalformedRejected == Constructed => ~Malformed(bench.rule)

\* the catalog items a rule requires, and those it consumes
Required(rule) ==
    IF "Requires" \in DOMAIN rule THEN DOMAIN rule.Requires \cap CatalogSet ELSE {}

Consumed(rule) ==
    IF "Consumes" \in DOMAIN rule THEN DOMAIN rule.Consumes \cap CatalogSet ELSE {}

Produced(rule) ==
    IF "Produces" \in DOMAIN rule THEN DOMAIN rule.Produces \cap CatalogSet ELSE {}

Fires(rule, s) ==
    /\ \A i \in Required(rule) : Get(s, i) >= 1
    /\ \A i \in Consumed(rule) : Get(s, i) >= rule.Consumes[i]

\* C9: check(state) is true exactly when every required item has quantity
\* at least 1 and every consumed item has at least the amount consumed, and
\* a state that differs only in items the recipe neither requires nor
\* consumes gets the same answer.
C9_CheckIffAvailable ==
    bench.pc \in {"checked", "applied"} =>
        /\ bench.ok = Fires(bench.rule, bench.given)
        /\ \A s \in BenchStates :
              (\A i \in Required(bench.rule) \cup Consumed(bench.rule) :
                    Get(s, i) = Get(bench.given, i))
              => check(bench.recipe.check, s) = bench.ok

C9_Witness ==
    /\ bench.pc = "checked"
    /\ bench.ok
    /\ Required(bench.rule) # {}
    /\ Consumed(bench.rule) # {}
    /\ \E i \in Consumed(bench.rule) : Get(bench.given, i) = bench.rule.Consumes[i]

\* C10: on a state that passes the check, effect returns a state in which
\* every item holds its input quantity minus what the recipe consumes of it
\* plus what the recipe produces of it (so an item neither consumed nor
\* produced keeps its quantity), with the keys of the input in the input's
\* order, and the state passed in is left as it was.
C10_EffectAndFrame ==
    bench.pc = "applied" =>
        /\ \A i \in CatalogSet :
              Get(bench.out, i) =
                  Get(bench.given, i)
                  - (IF i \in Consumed(bench.rule) THEN bench.rule.Consumes[i] ELSE 0)
                  + (IF i \in Produced(bench.rule) THEN bench.rule.Produces[i] ELSE 0)
        /\ KeySeq(bench.out) = KeySeq(bench.given)
        /\ bench.state = bench.given

C10_Witness ==
    /\ bench.pc = "applied"
    /\ Consumed(bench.rule) # {}
    /\ Produced(bench.rule) # {}
    /\ \E i \in CatalogSet : i \notin Consumed(bench.rule) \cup Produced(bench.rule)
    /\ KeySeq(bench.given) # Items
    /\ bench.out # bench.given

-----------------------------------------------------------------------------
(* The search running to its end: every loop iteration and every turn of   *)
(* the walk is a step of the one thread, which never waits                 *)

FairSpec == Init /\ [][Next]_vars /\ WF_vars(Next)

-----------------------------------------------------------------------------
(* Plans: what recipe sequences can do, independently of search *)

\* longest recipe sequence enumerated; longer than any the search can build
\* before its budget is used up
MaxPlan == MaxLimit + 1

\* the cheapest cost for each state of a set of <<state, cost>> pairs
Cheapest(pairs) == {p \in pairs : \A q \in pairs : q[1] = p[1] => p[2] <= q[2]}

\* one more recipe applied to every state that is not yet a goal
Step(pairs) ==
    Cheapest(UNION {
        LET ns == graph(p[1], all_recipes)
        IN {<<ns[i][2], p[2] + ns[i][3]>> : i \in 1..Len(ns)} :
        p \in {q \in pairs : ~is_goal(goal, q[1])}})

\* Layers(s)[k]: the states exactly k recipes away from s, with their cheapest cost
Layers(s) ==
    LET L[k \in 0..MaxPlan] == IF k = 0 THEN {<<s, 0>>} ELSE Step(L[k - 1])
    IN L

\* the costs of the plans of at most MaxPlan recipes that lead from s to a goal
PlanCosts(s) ==
    {p[2] : p \in {q \in UNION {Layers(s)[k] : k \in 0..MaxPlan} : is_goal(goal, q[1])}}

\* the states one recipe away from the states of front
Successors(front) ==
    UNION {LET ns == graph(s, all_recipes)
           IN {ns[i][2] : i \in 1..Len(ns)} : s \in front}

\* some plan of at most k recipes leads from a state of front to a goal
RECURSIVE ReachWithin(_, _, _)
ReachWithin(front, seen, k) ==
    IF \E s \in front : is_goal(goal, s) THEN TRUE
    ELSE IF k = 0 \/ front = {} THEN FALSE
    ELSE ReachWithin(Successors(front) \ seen, seen \cup front, k - 1)

Reachable == ReachWithin({state}, {}, MaxPlan)

OptCost == CHOOSE c \in PlanCosts(state) : \A d \in PlanCosts(state) : c <= d

\* lines 301-303: total_cost
RECURSIVE TotalCost(_)
TotalCost(p) == IF p = <<>> THEN 0 ELSE p[1][1] + TotalCost(Tail(p))

Returned == pc \in {"GoalFound", "TimeExpired"}

RecipeNamed(name) ==
    {i \in 1..Len(all_recipes) : all_recipes[i].name = name}

\* entry k of path p is what some recipe of that name makes of entry k - 1
StepValid(p, k) ==
    \E i \in RecipeNamed(p[k][2]) :
        /\ check(all_recipes[i].check, p[k - 1][3])
        /\ effect(all_recipes[i].effect, p[k - 1][3]).ret = p[k][3]
        /\ p[k][1] = all_recipes[i].cost

ValidPath(p) ==
    /\ p[1] = <<0, "Start", state>>
    /\ \A k \in 2..Len(p) : StepValid(p, k)
    /\ is_goal(goal, p[Len(p)][3])

-----------------------------------------------------------------------------
(* Claims about search *)

\* C1: every non-empty path search returns starts with the 'Start' entry
\* holding the initial state, continues with entries that each name a recipe
\* applicable to the previous entry's state and yielding the entry's state at
\* the entry's cost, and ends in a state that satisfies the goal.
C1_PathValid == (pc = "GoalFound" /\ result # <<>>) => ValidPath(result)

\* C2: every search eventually returns, as GoalFound or as TimeExpired.
C2_Terminates == (pc = "Running") ~> Returned


\* how much of the goal's shortfall one use of recipe r can make up
GoalGain(r) ==
    LET items == Sub(Items, {k \in 1..Len(Items) :
                       Items[k] \in DOMAIN goal /\ Items[k] \in DOMAIN r.effect.produce})
        F[k \in 0..Len(items)] ==
            IF k = 0 THEN 0 ELSE F[k - 1] + r.effect.produce[items[k]]
    IN F[Len(items)]

\* heuristics of the family that never overestimate: the zero heuristic, and
\* a weighted shortfall that no recipe reduces by more than the recipe costs
Admissible ==
    \/ hue.kind = "zero"
    \/ /\ hue.kind = "shortfall"
       /\ \A i \in 1..Len(all_recipes) : hue.w * GoalGain(all_recipes[i]) <= all_recipes[i].cost

\* C3: under a heuristic that never overestimates, a returned path costs
\* exactly what the cheapest recipe sequence from the initial state to a
\* goal state costs.
C3_Optimal ==
    (pc = "GoalFound" /\ Admissible) => (Reachable /\ TotalCost(result) = OptCost)

C3_Witness ==
    /\ pc = "GoalFound"
    /\ Admissible
    /\ hue.kind = "shortfall"
    /\ Len(result) >= 3
    /\ \E c \in PlanCosts(state) : c > TotalCost(result)

\* the node popped last is no goal node
NoGoalPopped == node = <<>> \/ ~is_goal(goal, node[2])

\* C4: the empty list is returned only when the budget ran out with no goal
\* node popped, and a successful result holds at least the 'Start' entry.
C4_Distinguishable ==
    Returned =>
        /\ (result = <<>>) = (pc = "TimeExpired")
        /\ pc = "TimeExpired" => (~(elapsed < limit) /\ NoGoalPopped)
        /\ pc = "GoalFound" => (Len(result) >= 1 /\ result[1][2] = "Start")

C4_Witness ==
    /\ pc = "GoalFound"
    /\ result = <<<<0, "Start", state>>>>

\* nothing was expanded: the dictionaries are as lines 226-231 left them
NothingExpanded ==
    /\ prev = NoMap
    /\ DOMAIN distance = {NodeKey(initial(state))}

\* C5, as claimed: when the initial state satisfies the goal and the budget
\* is positive, search ends GoalFound, on its first pop and without
\* expanding a node, with the 'Start' entry alone and total cost 0.
C5_GoalAtStart ==
    (is_goal(goal, state) /\ limit > 0) =>
        /\ pc # "TimeExpired"
        /\ pc \in {"Walk", "GoalFound"} => (node = initial(state) /\ NothingExpanded)
        /\ pc = "GoalFound" => (result = <<<<0, "Start", state>>>> /\ TotalCost(result) = 0)

\* C5, amended: when the initial state satisfies the goal, the first read of
\* the clock decides.  If it is below the budget, the first pop is the start
\* node, nothing is expanded and the result is the 'Start' entry alone, at
\* total cost 0, whatever the heuristic; if it is not, the search ends
\* TimeExpired with nothing popped.
C5_GoalAtStartInTime ==
    is_goal(goal, state) =>
        /\ pc = "Running" => elapsed = 0
        /\ pc = "TimeExpired" => (node = <<>> /\ ~(elapsed < limit))
        /\ pc \in {"Walk", "GoalFound"} =>
              (node = initial(state) /\ NothingExpanded /\ elapsed < limit)
        /\ pc = "GoalFound" => (result = <<<<0, "Start", state>>>> /\ TotalCost(result) = 0)

C5_Witness ==
    /\ is_goal(goal, state)
    /\ pc = "GoalFound"
    /\ Hue(state) # 0
    /\ Len(all_recipes) > 0

\* C6: when no recipe sequence reaches a goal state, search never pops a
\* goal node or returns a path, an iteration that finds the frontier empty
\* before the deadline leaves the search running, and every search, from its
\* first loop test (elapsed = 0) on, eventually returns the empty list, with
\* the budget used up.
C6_Unreachable ==
    /\ [](pc \in {"Walk", "GoalFound"} => Reachable)
    /\ [](pc = "TimeExpired" => ((result = <<>> /\ ~(elapsed < limit)) \/ Reachable))
    /\ [][(pc = "Running" /\ prio_q = <<>> /\ elapsed' < limit)
            => (pc' = "Running" \/ Reachable)]_vars
    /\ (pc = "Running" /\ elapsed = 0 /\ ~Reachable) ~> (pc = "TimeExpired")

C6_Witness ==
    /\ ~Reachable
    /\ pc = "TimeExpired"
    /\ prio_q = <<>>
    /\ Len(all_recipes) > 0
    /\ elapsed > 2

\* the distance recorded for the state of the last entry of path p
Recorded(p) ==
    IF StateKey(p[Len(p)][3]) \in DOMAIN distance
    THEN distance[StateKey(p[Len(p)][3])]
    ELSE distance[NodeKey(initial(state))]

\* the summed costs of the recipes the entries of p name
RECURSIVE RecipeCosts(_)
RecipeCosts(p) ==
    IF p = <<>> THEN 0
    ELSE (IF p[1][2] = "Start" THEN 0
          ELSE all_recipes[CHOOSE i \in RecipeNamed(p[1][2]) : TRUE].cost)
         + RecipeCosts(Tail(p))

\* C7: the total cost reported for a returned path equals the summed costs
\* of the recipes applied along it and the distance recorded for the goal
\* node that was popped.
C7_CostConsistent ==
    pc = "GoalFound" =>
        /\ TotalCost(result) = RecipeCosts(result)
        /\ TotalCost(result) = Recorded(result)

-----------------------------------------------------------------------------
(* Claims about the states and dictionaries of search *)

NonNegative(s) == \A k \in 1..Len(s) : s[k][2] >= 0

\* the states held by the frontier, the dictionaries, the popped node and
\* the returned path
HeldStates ==
    {prio_q[i][2] : i \in 1..Len(prio_q)}
    \cup {key[2] : key \in {x \in DOMAIN distance : x[1] = "state"}}
    \cup {key[2][2] : key \in {x \in DOMAIN distance : x[1] = "node"}}
    \cup DOMAIN prev
    \cup {prev[s][2] : s \in DOMAIN prev}
    \cup (IF node = <<>> THEN {} ELSE {node[2]})
    \cup {result[k][3] : k \in 1..Len(result)}

\* C11: with an initial inventory of non-negative quantities, every state
\* graph produces and search puts on the frontier, into its dictionaries or
\* into a returned path has a non-negative quantity of every catalog item.
C11_NonNegative ==
    \A s \in HeldStates :
        /\ NonNegative(s)
        /\ \A i \in 1..Len(all_recipes) :
              check(all_recipes[i].check, s) =>
                  NonNegative(effect(all_recipes[i].effect, s).ret)

\* a state that a consuming recipe has taken down to nothing of an item is
\* on the frontier
C11_Witness ==
    \E i \in 1..Len(prio_q) :
        /\ prio_q[i][3] \in {"saw", "glue"}
        /\ \E k \in 1..Len(prio_q[i][2]) : prio_q[i][2][k][2] = 0
        /\ prio_q[i][2] \in DOMAIN prev

-----------------------------------------------------------------------------
(* make_heuristic: the get_hue of lines 141-216, with its cost table, on   *)
(* states over the item catalog the table is written for                   *)

\* the items get_hue reads; a State it is called on holds every one of them
HueItems == <<"bench", "cart", "coal", "cobble", "furnace", "ingot", "iron_axe",
              "iron_pickaxe", "ore", "plank", "rail", "stick", "stone_axe",
              "stone_pickaxe", "wood", "wooden_axe", "wooden_pickaxe">>

\* math.ceil(a / b) for positive a and b
ceil(a, b) == (a + b - 1) \div b

\* lines 194: tools
tools == {"wooden_axe", "wooden_pickaxe", "stone_axe", "stone_pickaxe", "bench", "furnace"}

\* lines 148-191: the cost table for an inventory
CostTable(inventory) ==
    LET inv(k) == Get(inventory, k)
        tool_base == 100
        cost_wood == IF inv("stone_axe") >= 1 THEN 2
                ELSE IF inv("wooden_axe") >= 1 THEN 4 ELSE 8
        cost_cobble == IF inv("iron_pickaxe") >= 1 THEN 2
                  ELSE IF inv("stone_pickaxe") >= 1 THEN 4
                  ELSE IF inv("wooden_pickaxe") >= 1 THEN 8 ELSE 16
        cost_coal == IF inv("iron_pickaxe") >= 1 THEN 2
                ELSE IF inv("stone_pickaxe") >= 1 THEN 4
                ELSE IF inv("wooden_pickaxe") >= 1 THEN 8 ELSE 16
        cost_ore == IF inv("iron_pickaxe") >= 1 THEN 4
               ELSE IF inv("stone_pickaxe") >= 1 THEN 8
               ELSE IF inv("wooden_pickaxe") >= 1 THEN 16 ELSE 32
        cost_plank == 1 + ceil(cost_wood, 4)
        cost_stick == 1 + ceil(cost_plank, 2)
        cost_bench == tool_base + cost_plank * (4 - inv("plank"))
        cost_furnace == tool_base + cost_bench * (1 - inv("bench")) + cost_cobble * (8 - inv("cobble"))
        cost_ingot == 5 + cost_coal + cost_ore + cost_furnace * (1 - inv("furnace"))
        cost_wooden_axe == tool_base + cost_bench * (1 - inv("bench")) + cost_plank * (3 - inv("plank"))
                          + cost_stick * (2 - inv("stick"))
        cost_stone_axe == tool_base + cost_bench * (1 - inv("bench")) + cost_cobble * (3 - inv("cobble"))
                         + cost_stick * (2 - inv("stick"))
        cost_iron_axe == tool_base + cost_bench * (1 - inv("bench")) + cost_ingot * (3 - inv("ingot"))
                        + cost_stick * (2 - inv("stick"))
    IN [wood |-> cost_wood, cobble |-> cost_cobble, coal |-> cost_coal, ore |-> cost_ore, plank |-> cost_plank,
        stick |-> cost_stick, bench |-> cost_bench, furnace |-> cost_furnace, ingot |-> cost_ingot,
        wooden_axe |-> cost_wooden_axe, wooden_pickaxe |-> cost_wooden_axe,
        stone_axe |-> cost_stone_axe, stone_pickaxe |-> cost_stone_axe,
        iron_axe |-> cost_iron_axe, iron_pickaxe |-> cost_iron_axe,
        cart |-> 1 + cost_bench * (1 - inv("bench")) + cost_ingot * (5 - inv("ingot")),
        rail |-> 1 + cost_bench * (1 - inv("bench")) + cost_ingot * (6 - inv("ingot"))]

\* lines 197-215: what one key of the inventory does to hue_val
HueStep(hue_val, key, g, inventory, cost) ==
    LET have == Get(inventory, key)
    IN IF key \in DOMAIN g
       THEN IF have < g[key]
            THEN IF key \in DOMAIN cost
                 THEN NumAdd(hue_val, cost[key] * (g[key] - have))
                 ELSE NumAdd(hue_val, g[key] - have)
            ELSE IF key \in tools
            THEN (IF have > 1 THEN Inf ELSE hue_val)
            ELSE IF have > 8
            THEN (IF key = "rail" THEN NumAdd(hue_val, 0) ELSE Inf)
            ELSE hue_val
       ELSE IF key \in tools
       THEN (IF have > 1 THEN Inf ELSE hue_val)
       ELSE IF have > 8 THEN Inf
       ELSE hue_val

\* make_heuristic(g)(s): lines 141-216
make_heuristic(g, s) ==
    LET inventory == copy(s)
        cost == CostTable(inventory)
        F[k \in 0..Len(inventory)] ==
            IF k = 0 THEN 0 ELSE HueStep(F[k - 1], inventory[k][1], g, inventory, cost)
    IN F[Len(inventory)]

\* inventories around the amounts the cost table subtracts from: every item
\* of the catalog, most at 0
HueStates ==
    {[k \in 1..Len(HueItems) |->
        <<HueItems[k],
          IF HueItems[k] = "plank" THEN q.plank
          ELSE IF HueItems[k] = "stick" THEN q.stick
          ELSE IF HueItems[k] = "cobble" THEN q.cobble
          ELSE IF HueItems[k] = "ingot" THEN q.ingot
          ELSE IF HueItems[k] = "bench" THEN q.bench
          ELSE IF HueItems[k] = "furnace" THEN q.furnace
          ELSE IF HueItems[k] = "stone_pickaxe" THEN q.stone_pickaxe
          ELSE IF HueItems[k] = "rail" THEN q.rail
          ELSE 0>>] :
     q \in [plank : {0, 4, 5, 9}, stick : {0, 2, 3}, cobble : {0, 8, 9},
            ingot : {0, 5, 6, 8}, bench : {0, 1, 2}, furnace : {0, 1},
            stone_pickaxe : {0, 1}, rail : {0, 9}]}

HueGoals == {[cart |-> 1], [rail |-> 16], [bench |-> 1, furnace |-> 1],
             [plank |-> 1], [stone_pickaxe |-> 1, ingot |-> 9]}

\* a goal and a state are chosen
Ask ==
    /\ est.pc = "idle"
    /\ pc = "Off"
    /\ bench.pc = "idle"
    /\ \E g \in HueGoals, s \in HueStates :
          est' = [pc |-> "asked", goal |-> g, state |-> s, value |-> 0]
    /\ UNCHANGED <<bench, searchVars>>

\* get_hue(state) returns
Estimate ==
    /\ est.pc = "asked"
    /\ est' = [est EXCEPT !.pc = "told", !.value = make_heuristic(est.goal, est.state)]
    /\ UNCHANGED <<bench, searchVars>>

HueNext == Ask \/ Estimate

HueSpec == Init /\ [][HueNext]_vars

\* C12: on a state of non-negative quantities get_hue returns a non-negative
\* number or the infinite sentinel, also when the state holds more of an
\* ingredient than the amount the cost table subtracts it from.
C12_HueRange ==
    (est.pc = "told" /\ NonNegative(est.state)) => (est.value = Inf \/ est.value >= 0)

-----------------------------------------------------------------------------
(* Claims about the predecessor and distance dictionaries *)

\* following prev from node nd ends, within k links, at the start node
RECURSIVE ReachesStart(_, _)
ReachesStart(nd, k) ==
    IF nd[2] \notin DOMAIN prev THEN nd = initial(state)
    ELSE IF k = 0 THEN FALSE
    ELSE ReachesStart(prev[nd[2]], k - 1)

\* C13: following prev from any recorded state reaches the start node in
\* finitely many links, and the start node's state has no predecessor: prev
\* holds no cycle.
C13_PrevWellFounded ==
    pc # "Off" =>
        /\ state \notin DOMAIN prev
        /\ \A s \in DOMAIN prev : ReachesStart(prev[s], Cardinality(DOMAIN prev))

\* C14: from initialization on, the distance recorded for the start state
\* is 0, the start state is given no predecessor, and no entry other than
\* the start node carries the start state onto the frontier.
C14_StartSeeded ==
    pc # "Off" =>
        /\ StateKey(state) \in DOMAIN distance
        /\ distance[StateKey(state)] = 0
        /\ state \notin DOMAIN prev
        /\ \A i \in 1..Len(prio_q) : prio_q[i][2] = state => prio_q[i] = initial(state)

-----------------------------------------------------------------------------
(* Claims about one expansion *)

\* the frontier entry the next pop takes
Top == heappop(prio_q).item

\* this step pops Top and expands it: lines 236-258
Expanding == pc = "Running" /\ Len(prio_q) > 0 /\ pc' = "Running"

\* the recipes that apply to s and leave it as it is
NoOps(s) ==
    {i \in 1..Len(all_recipes) :
        /\ check(all_recipes[i].check, s)
        /\ effect(all_recipes[i].effect, s).ret = s}

\* how many entries of heap q carry state s
CountOf(q, s) == Cardinality({i \in 1..Len(q) : q[i][2] = s})

\* C15: when a state is popped, the start state included, and a recipe
\* that applies to it yields the state itself, the expansion leaves the
\* state's entries in distance and prev as they were and pushes no entry
\* for it.
C15_NoOpPruned ==
    [][(Expanding /\ NoOps(Top[2]) # {}) =>
          LET s == Top[2]
          IN /\ StateKey(s) \in DOMAIN distance
             /\ distance'[StateKey(s)] = distance[StateKey(s)]
             /\ (s \in DOMAIN prev') = (s \in DOMAIN prev)
             /\ s \in DOMAIN prev => prev'[s] = prev[s]
             /\ CountOf(prio_q', s) = CountOf(prio_q, s) - 1]_vars

\* the cost accumulated along the path a frontier entry was pushed for: its
\* priority less the heuristic, and where both are infinite the distance it
\* was recorded with
Accumulated(nd) ==
    IF IsFinite(nd[1]) THEN nd[1] - Hue(nd[2])
    ELSE IF StateKey(nd[2]) \in DOMAIN distance THEN distance[StateKey(nd[2])]
    ELSE distance[NodeKey(nd)]

\* the relaxation rule applied to the successors ns of node nd in turn: a
\* successor is recorded, and pushed, when its state has no distance or the
\* tentative cost is strictly smaller than the distance it has
RECURSIVE Ruled(_, _, _)
Ruled(acc, nd, ns) ==
    IF ns = <<>> THEN acc
    ELSE LET n == ns[1]
             tentative == NumAdd(Accumulated(nd), n[3])
             better == \/ StateKey(n[2]) \notin DOMAIN acc.distance
                       \/ NumLt(tentative, acc.distance[StateKey(n[2])])
         IN Ruled(IF better
                  THEN [distance |-> (StateKey(n[2]) :> tentative) @@ acc.distance,
                        prev |-> (n[2] :> nd) @@ acc.prev,
                        pushed |-> acc.pushed + 1]
                  ELSE acc,
                  nd, Tail(ns))

\* C16: an expansion records and pushes a successor exactly when its state
\* has no recorded distance or the popped node's accumulated cost plus the
\* recipe's cost is strictly smaller than the recorded one; so a recorded
\* distance never increases, and a rediscovery at equal cost pushes nothing.
C16_RelaxationRule ==
    /\ [][Expanding =>
            LET r == Ruled([distance |-> distance, prev |-> prev, pushed |-> 0],
                           Top, graph(Top[2], all_recipes))
            IN /\ distance' = r.distance
               /\ prev' = r.prev
               /\ Len(prio_q') = Len(prio_q) - 1 + r.pushed]_vars
    /\ [][pc = "Running" =>
            \A key \in DOMAIN distance :
                /\ key \in DOMAIN distance'
                /\ ~NumLt(distance[key], distance'[key])]_vars

-----------------------------------------------------------------------------
(* Claims about the order of the frontier *)

\* C17: a state whose heuristic value is the infinite sentinel is never
\* expanded and is no entry of a returned path.
C17_InfPruned ==
    /\ (pc = "Running" /\ node # <<>>) => Hue(node[2]) # Inf
    /\ pc = "GoalFound" => \A k \in 1..Len(result) : Hue(result[k][3]) # Inf

\* Searches with a budget long enough for the heap to grow three levels deep
\* and for a state to be pushed twice and popped twice
LongLimit == 10

LongPool == <<
    [name |-> "mill",    rule |-> [Consumes |-> [wood |-> 2], Produces |-> [plank |-> 2], Time |-> 0]],
    [name |-> "gather",  rule |-> [Produces |-> [wood |-> 1], Time |-> 0]],
    [name |-> "harvest", rule |-> [Produces |-> [wood |-> 2], Time |-> 0]],
    [name |-> "chop",    rule |-> [Produces |-> [plank |-> 2], Time |-> 5]],
    [name |-> "whittle", rule |-> [Produces |-> [plank |-> 1], Time |-> 1]] >>

LongRecipeLists ==
    {[k \in 1..Cardinality(idx) |->
         MakeRecipe(Sub(LongPool, idx)[k].name, Sub(LongPool, idx)[k].rule)] :
        idx \in SUBSET (1..Len(LongPool))}

LongGoals == {[wood |-> 4], [plank |-> 2]}

LongHues == {[kind |-> "cap", w |-> 1, cap |-> 2],
             [kind |-> "zero", w |-> 0, cap |-> 0]}

\* lines 220-231, as Call, for the longer searches
LongCall ==
    /\ pc = "Off"
    /\ all_recipes' \in LongRecipeLists
    /\ goal' \in LongGoals
    /\ hue' \in LongHues
    /\ state' \in StartStates
    /\ limit' = LongLimit
    /\ elapsed' = 0
    /\ prio_q' = <<get_initial(hue', goal', state')>>
    /\ distance' = (NodeKey(get_initial(hue', goal', state')) :> 0)
    /\ prev' = NoMap
    /\ node' = <<>>
    /\ path' = <<>>
    /\ turns' = 0
    /\ pc' = "Running"
    /\ result' = <<>>
    /\ UNCHANGED <<est, bench>>

LongNext == LongCall \/ Expire \/ Spin \/ PopGoal \/ Expand \/ WalkStep \/ WalkEnd

LongSpec == Init /\ [][LongNext]_vars

\* C18: the entry the loop pops next has the lowest priority on the
\* frontier, and among the entries of that priority its state is the least
\* in the order of the (item, quantity) pairs.
C18_TieBreak ==
    (pc = "Running" /\ Len(prio_q) > 0) =>
        \A k \in 1..Len(prio_q) :
            /\ ~NumLt(prio_q[k][1], Top[1])
            /\ NumEq(prio_q[k][1], Top[1]) => ~StateLt(prio_q[k][2], Top[2])


\* the entry's accumulated cost is above the distance recorded for its state
Stale(nd) ==
    /\ StateKey(nd[2]) \in DOMAIN distance
    /\ NumLt(distance[StateKey(nd[2])], NumSub(nd[1], Hue(nd[2])))

\* C19: under a heuristic that is finite everywhere (the recipes' costs are
\* never negative), the expansion of a stale entry leaves distance and prev
\* as they are and pushes nothing: the frontier only loses the popped entry.
C19_StaleHarmless ==
    [][(Expanding /\ hue.kind # "cap" /\ Stale(Top)) =>
          /\ distance' = distance
          /\ prev' = prev
          /\ prio_q' = heappop(prio_q).heap]_vars

\* a stale entry has been popped and expanded
C19_Witness ==
    /\ pc = "Running"
    /\ hue.kind # "cap"
    /\ node # <<>>
    /\ ~is_goal(goal, node[2])
    /\ Stale(node)
    /\ graph(node[2], all_recipes) # <<>>


-----------------------------------------------------------------------------
(* Claims about what the recorded distances stand for *)

\* the <<state, cost>> pairs that the recipe sequences of at most k recipes
\* reach from the pairs of front
RECURSIVE Walks(_, _)
Walks(front, k) ==
    IF k = 0 \/ front = {} THEN front
    ELSE front \cup
         Walks(UNION {LET ns == graph(p[1], all_recipes)
                      IN {<<ns[i][2], p[2] + ns[i][3]>> : i \in 1..Len(ns)} :
                      p \in front}, k - 1)

\* the state a key of distance stands for
KeyState(key) == IF key[1] = "state" THEN key[2] ELSE key[2][2]

\* C20: the distance recorded for a state, and the accumulated cost
\* (priority minus heuristic) of every frontier entry, is the total cost of
\* some sequence of applicable recipes from the initial state to that state.
C20_DistancesSound ==
    pc = "Running" =>
        LET walks == Walks({<<state, 0>>}, MaxPlan)
        IN /\ \A key \in DOMAIN distance : <<KeyState(key), distance[key]>> \in walks
           /\ \A k \in 1..Len(prio_q) :
                  <<prio_q[k][2], NumSub(prio_q[k][1], Hue(prio_q[k][2]))>> \in walks

=============================================================================
